---------------------------- MODULE Spec2Model ----------------------------
(***************************************************************************)
(* A model of the recipe extraction pipeline of data_collection:           *)
(*   src/src/utils.rs        u32::from_time_str  (the duration parser)     *)
(*   src/src/recipes/mod.rs  Macros, Recipe::new, parse_recipe and its     *)
(*                           extractors, get_macros, get_recipes           *)
(*                                                                         *)
(* Text is modelled as a sequence of one-character strings where the code  *)
(* looks inside it (durations, hrefs, headings, notes) and as an opaque    *)
(* string where it only copies it.  A u32 is a pair <<hi, lo>> of 16-bit   *)
(* limbs, so that the width of the type is kept.  An f32 ingredient        *)
(* quantity is a count of halves (1.5 is 3), on which f32 addition is      *)
(* exact; an f64 nutrient value is a reduced fraction <<num, den>>, or     *)
(* "inf" / "NaN" after a division by zero.                                 *)
(***************************************************************************)
EXTENDS Integers, Sequences, FiniteSets, TLC

VARIABLES
    pc,            \* where the modelled call stands
    debug_build,   \* TRUE: overflow checks on (debug profile); FALSE: release
    time_in,       \* from_time_str: the argument
    time_out,      \* from_time_str: what the call produced
    r,             \* the Recipe under construction (self)
    res,           \* what Recipe::new / get_macros / parse_ingredients returned
    sum_by_name,   \* history: name -> sum of the quantities given to add_ingredients
    first_seen,    \* history: names in the order add_ingredients first saw them
    calls,         \* history: number of extractor calls made
    uls,           \* parse_recipe: the ul elements its loop has still to visit
    nut_doc,       \* get_macros: the document served at the nutrition url
    figures,       \* get_recipes: the figure entries of the listing document
    idx,           \* get_recipes: the entry the loop stands at
    out,           \* get_recipes: the vector being built
    log,           \* get_recipes: the urls printed as failed
    document,      \* parse_recipe: the fetched page
    stages,        \* history: the steps of parse_recipe taken for this recipe
    fetches,       \* history: the urls fetched for this recipe
    panic          \* the panic that ended the process, or NoPanic

vars == <<pc, debug_build, time_in, time_out, r, res, sum_by_name, first_seen,
          calls, uls, nut_doc, figures, idx, out, log, document, stages, fetches,
          panic>>

\* Option<T>: None is the empty sequence, Some(x) the sequence of x alone.
None == <<>>
Some(x) == <<x>>
IsSome(o) == o # <<>>
Unwrap(o) == o[1]
NoPanic == "no panic"

(***************************************************************************)
(* Bounds of the model.                                                    *)
(***************************************************************************)
MaxSmallNumber == 3     \* durations use the integers 0..MaxSmallNumber (and more below)
MaxItems == 2           \* li elements per ul
MaxCalls == 2           \* parse_ingredients calls per recipe
MaxFigures == 2         \* figure entries per listing document
MaxServings == 4        \* servings values 0..MaxServings in a nutrition payload

(***************************************************************************)
(* u32 arithmetic on 16-bit limbs.                                         *)
(***************************************************************************)
LimbBase == 65536

U32(n) == <<n \div LimbBase, n % LimbBase>>

IsU32(v) == v[1] < LimbBase

Digits == <<"0", "1", "2", "3", "4", "5", "6", "7", "8", "9">>

IsDigit(c) == \E i \in 1..10 : Digits[i] = c

DigitVal(c) == (CHOOSE i \in 1..10 : Digits[i] = c) - 1

\* The value of a digit string, exactly (the high limb is not cut).
RECURSIVE DecimalValue(_, _)
DecimalValue(ds, acc) ==
    IF ds = <<>> THEN acc
    ELSE LET t == acc[2] * 10 + DigitVal(Head(ds))
         IN  DecimalValue(Tail(ds), <<acc[1] * 10 + t \div LimbBase, t % LimbBase>>)

\* h * 60 + m, exactly.
Times60Plus(h, m) ==
    LET t  == h[2] * 60
        lo == (t % LimbBase) + m[2]
    IN  <<h[1] * 60 + t \div LimbBase + m[1] + lo \div LimbBase, lo % LimbBase>>

\* str::parse::<u32>: Err when the value does not fit.
ParseU32(ds) ==
    LET v == DecimalValue(ds, <<0, 0>>)
    IN  IF IsU32(v) THEN [kind |-> "Ok", val |-> v] ELSE [kind |-> "Err", val |-> <<0, 0>>]

(***************************************************************************)
(* The duration parser.                                                    *)
(***************************************************************************)
IsSpace(c) == c \in {" ", "\t", "\n"}

\* The first position >= p of s that does not satisfy the class (Len(s)+1 if none):
\* where a greedy \s* or \d* starting at p ends.
RECURSIVE SkipSpaces(_, _)
SkipSpaces(s, p) ==
    IF p <= Len(s) /\ IsSpace(s[p]) THEN SkipSpaces(s, p + 1) ELSE p

RECURSIVE SkipDigits(_, _)
SkipDigits(s, p) ==
    IF p <= Len(s) /\ IsDigit(s[p]) THEN SkipDigits(s, p + 1) ELSE p

StartsWithAt(s, p, w) ==
    /\ p + Len(w) - 1 <= Len(s)
    /\ \A i \in 1..Len(w) : s[p + i - 1] = w[i]

HourWords == << <<"h", "o", "u", "r">>, <<"h", "r">> >>
MinuteWords == << <<"m", "i", "n", "u", "t", "e">>, <<"m", "i", "n">> >>

\* The first alternative of `words` that matches at p (0 if none).
FirstAlternative(s, p, words) ==
    IF \E i \in 1..Len(words) : StartsWithAt(s, p, words[i])
    THEN CHOOSE i \in 1..Len(words) :
            /\ StartsWithAt(s, p, words[i])
            /\ \A j \in 1..(i - 1) : ~StartsWithAt(s, p, words[j])
    ELSE 0

\* One group  (?:\s*(\d+)\s*(?:w1|w2)s?)?  tried at p.  Nothing a shorter \s* or
\* \d+ gives back can be matched by what follows it, so the greedy run is the
\* only candidate; the group is optional, and is skipped when it does not match.
MatchGroup(s, p, words) ==
    LET p1 == SkipSpaces(s, p)
        p2 == SkipDigits(s, p1)
        p3 == SkipSpaces(s, p2)
        a  == FirstAlternative(s, p3, words)
        p4 == p3 + Len(words[a])
        p5 == IF p4 <= Len(s) /\ s[p4] = "s" THEN p4 + 1 ELSE p4
    IN  IF p2 > p1 /\ a # 0
        THEN [matched |-> TRUE, end |-> p5, digits |-> SubSeq(s, p1, p2 - 1)]
        ELSE [matched |-> FALSE, end |-> p, digits |-> <<>>]

\* Regex::captures: the leftmost match.  Both groups are optional, so the
\* pattern matches (at least the empty string) at the first position it is
\* tried at, which is the start of the text.
CapturesAfter(s, g1) ==
    [found |-> TRUE, hours |-> g1, minutes |-> MatchGroup(s, g1.end, MinuteWords)]

Captures(s) == CapturesAfter(s, MatchGroup(s, 1, HourWords))

\* Line 25 for the exact value v of hours * 60 + minutes: a debug build
\* panics when v does not fit a u32, a release build wraps it.
CheckedU32(v, debug) ==
    IF IsU32(v) THEN [kind |-> "Ok", val |-> v]
    ELSE IF debug THEN [kind |-> "Panic", val |-> "arithmetic overflow"]
    ELSE [kind |-> "Ok", val |-> <<v[1] % LimbBase, v[2]>>]

\* Lines 18-25 for the results h and m of the two parse::<u32>() calls.
FromParsed(h, m, debug) ==
    IF h.kind = "Err" THEN [kind |-> "Panic", val |-> "Cannot parse hours"]
    ELSE IF m.kind = "Err" THEN [kind |-> "Panic", val |-> "Cannot parse minutes"]
    ELSE CheckedU32(Times60Plus(h.val, m.val), debug)

\* Lines 16-25 for the captures of the regex.
FromCaptures(caps, debug) ==
    IF ~caps.found THEN [kind |-> "Err", val |-> "Failed to parse duration"]
    ELSE FromParsed(IF caps.hours.matched THEN ParseU32(caps.hours.digits)
                    ELSE [kind |-> "Ok", val |-> <<0, 0>>],
                    IF caps.minutes.matched THEN ParseU32(caps.minutes.digits)
                    ELSE [kind |-> "Ok", val |-> <<0, 0>>],
                    debug)

\* u32::from_time_str.  kind: "Ok" (val), "Err" (a returned error) or "Panic".
FromTimeStr(s, debug) == FromCaptures(Captures(s), debug)

(***************************************************************************)
(* The data model (recipes/mod.rs, lines 25-204).                          *)
(***************************************************************************)
\* #[derive(Default)] on Recipe: every field is its type's default.
DefaultRecipe ==
    [img |-> "", url |-> "", cuisine |-> "", category |-> "", method |-> "",
     total_time |-> <<0, 0>>, prep_time |-> <<0, 0>>, cook_time |-> <<0, 0>>,
     name |-> "", description |-> None, instructions |-> <<>>,
     ingredients |-> <<>>, video |-> None, notes |-> None, servings |-> 0,
     equiptment |-> <<>>, macros |-> None]

NoResult == [kind |-> "none"]

(***************************************************************************)
(* The ingredient extractor: Unit::from, parse_ingredients, add_ingredients.*)
(* An li is [strong, b, em: Option text, spans: the span elements of the   *)
(* item itself in document order, sub: the li elements of a ul nested in   *)
(* the item]; a span is [amount, unit: Option attribute, inner: the first  *)
(* span inside it, an Option].  A ul is the sequence of its li children.   *)
(***************************************************************************)
\* str::to_lowercase on the unit words the documents use.
ToLowercase(w) ==
    CASE w = "Cups" -> "cups"
      [] w = "Tablespoon" -> "tablespoon"
      [] OTHER -> w

\* Unit::from
UnitFrom(w) ==
    LET l == ToLowercase(w)
    IN  CASE l \in {"tablespoon", "tablespoons"} -> [kind |-> "Ok", val |-> "TABLESPOON"]
          [] l \in {"teaspoon", "teaspoons"} -> [kind |-> "Ok", val |-> "TEASPOON"]
          [] l \in {"cup", "cups"} -> [kind |-> "Ok", val |-> "CUP"]
          [] l \in {"lb", "lbs", "pound", "pounds"} -> [kind |-> "Ok", val |-> "LB"]
          [] l \in {"container", "containers"} -> [kind |-> "Ok", val |-> "CONTAINER"]
          [] OTHER -> [kind |-> "Err", val |-> "Error building Unit enum!"]

\* str::parse::<f32> on the amounts the documents use: digits, then optionally
\* a point and the digit 0 or 5.  The value is a count of halves.
ParseF32(t) ==
    LET p == SkipDigits(t, 1)
        whole == DecimalValue(SubSeq(t, 1, p - 1), <<0, 0>>)[2]
    IN  IF p = 1 THEN [kind |-> "Err", val |-> 0]
        ELSE IF p = Len(t) + 1 THEN [kind |-> "Ok", val |-> 2 * whole]
        ELSE IF Len(t) = p + 1 /\ t[p] = "." /\ t[p + 1] \in {"0", "5"}
             THEN [kind |-> "Ok", val |-> 2 * whole + (IF t[p + 1] = "5" THEN 1 ELSE 0)]
        ELSE [kind |-> "Err", val |-> 0]

\* node.find(Name("li")) on a ul: every li below it, in document order.
RECURSIVE DescendantLis(_)
DescendantLis(ul) ==
    IF ul = <<>> THEN <<>>
    ELSE <<Head(ul)>> \o DescendantLis(Head(ul).sub) \o DescendantLis(Tail(ul))

\* node.find(Name("ul")) on the ingredients container, whose ul children are
\* `children`: every ul below it, in document order.
RECURSIVE NestedUls(_)
NestedUls(ul) ==
    IF ul = <<>> THEN <<>>
    ELSE (IF Head(ul).sub = <<>> THEN <<>>
          ELSE <<Head(ul).sub>> \o NestedUls(Head(ul).sub))
         \o NestedUls(Tail(ul))

RECURSIVE DescendantUls(_)
DescendantUls(children) ==
    IF children = <<>> THEN <<>>
    ELSE <<Head(children)>> \o NestedUls(Head(children))
         \o DescendantUls(Tail(children))

\* li.find(Name(..)).next() for strong, b and em, and li.find(Name("span")):
\* the item's own elements come before those of the items nested in it.
RECURSIVE FirstOf(_, _)
FirstOf(lis, field) ==
    IF lis = <<>> THEN None
    ELSE IF IsSome(Head(lis)[field]) THEN Head(lis)[field]
    ELSE LET below == FirstOf(Head(lis).sub, field)
         IN  IF IsSome(below) THEN below ELSE FirstOf(Tail(lis), field)

RECURSIVE SpansOf(_)
SpansOf(lis) ==
    IF lis = <<>> THEN <<>>
    ELSE Head(lis).spans \o SpansOf(Head(lis).sub) \o SpansOf(Tail(lis))

\* The body of the loop of parse_ingredients (lines 432-486) for one li:
\* the Ingredient pushed, a returned error, or a panic.
ParseItem(li) ==
    LET strong == FirstOf(<<li>>, "strong")
        b      == FirstOf(<<li>>, "b")
        spans  == SpansOf(<<li>>)
        em     == FirstOf(<<li>>, "em")
    IN  IF ~IsSome(strong) /\ ~IsSome(b)
        THEN [kind |-> "Err", val |-> "No ingredient name found"]
        ELSE
        LET name == IF IsSome(strong) THEN Unwrap(strong) ELSE Unwrap(b)
        IN  IF Len(spans) < 2
            THEN [kind |-> "Ok",
                  val |-> [name |-> name, quantity |-> 0, units |-> None, prepped |-> em]]
            ELSE
            LET span == spans[2]
                q == IF IsSome(span.amount)
                     THEN LET v == ParseF32(Unwrap(span.amount))
                          IN  IF v.kind = "Ok" THEN v
                              ELSE [kind |-> "Panic", val |-> "unwrap on ParseFloatError"]
                     ELSE IF ~IsSome(span.inner) \/ ~IsSome(Unwrap(span.inner).amount)
                          THEN [kind |-> "Err", val |-> "Could not parse inner span"]
                     ELSE LET v == ParseF32(Unwrap(Unwrap(span.inner).amount))
                          IN  IF v.kind = "Ok" THEN v
                              ELSE [kind |-> "Err", val |-> "ParseFloatError"]
                u == IF IsSome(span.unit) /\ UnitFrom(Unwrap(span.unit)).kind = "Ok"
                     THEN Some(UnitFrom(Unwrap(span.unit)).val)
                     ELSE None
            IN  IF q.kind # "Ok" THEN q
                ELSE [kind |-> "Ok",
                      val |-> [name |-> name, quantity |-> q.val, units |-> u, prepped |-> em]]

\* The loop of parse_ingredients over the li elements: the vector built, or
\* the first error or panic.
RECURSIVE ParseItems(_, _)
ParseItems(lis, acc) ==
    IF lis = <<>> THEN [kind |-> "Ok", val |-> acc]
    ELSE LET i == ParseItem(Head(lis))
         IN  IF i.kind = "Ok" THEN ParseItems(Tail(lis), Append(acc, i.val)) ELSE i

\* ingredients.iter_mut().find(|i| i.name == name): the first index, or 0.
FindByName(ingredients, name) ==
    IF \E i \in 1..Len(ingredients) : ingredients[i].name = name
    THEN CHOOSE i \in 1..Len(ingredients) :
            /\ ingredients[i].name = name
            /\ \A j \in 1..(i - 1) : ingredients[j].name # name
    ELSE 0

\* Mutant: a merge that takes over the units and the note of the new entry.
AddIngredient_TakesNewUnits(ingredients, new) ==
    LET i == FindByName(ingredients, new.name)
    IN  IF i # 0
        THEN [ingredients EXCEPT ![i] = [new EXCEPT !.quantity = @ + ingredients[i].quantity]]
        ELSE Append(ingredients, new)

\* Mutant: a merge that looks only at the last entry.
AddIngredient_ChecksLastOnly(ingredients, new) ==
    IF ingredients # <<>> /\ ingredients[Len(ingredients)].name = new.name
    THEN [ingredients EXCEPT ![Len(ingredients)].quantity = @ + new.quantity]
    ELSE Append(ingredients, new)

\* The body of the loop of add_ingredients (lines 504-514).
AddIngredient(ingredients, new) ==
    LET i == FindByName(ingredients, new.name)
    IN  IF i # 0
        THEN [ingredients EXCEPT ![i].quantity = @ + new.quantity]
        ELSE Append(ingredients, new)

\* Recipe::add_ingredients: self.ingredients afterwards.
RECURSIVE AddIngredients(_, _)
AddIngredients(ingredients, new_ingredients) ==
    IF new_ingredients = <<>> THEN ingredients
    ELSE AddIngredients(AddIngredient(ingredients, Head(new_ingredients)),
                        Tail(new_ingredients))

\* Recipe::parse_ingredients on a ul: kind, the recipe afterwards, the error,
\* and the vector handed to add_ingredients.
ParseIngredients(rec, ul) ==
    LET items == ParseItems(DescendantLis(ul), <<>>)
    IN  IF items.kind = "Ok"
        THEN [kind |-> "Ok", err |-> "",
              r |-> [rec EXCEPT !.ingredients = AddIngredients(@, items.val)],
              added |-> items.val]
        ELSE [kind |-> items.kind, err |-> items.val, r |-> rec, added |-> <<>>]

(***************************************************************************)
(* The nutrition extractor: Macros::normalize_by_servings and get_macros.  *)
(* A nutrition document is [kind: "fetch_error"] or [kind: "doc", script:  *)
(* Option of [pattern: whether the pattern matches the script text,        *)
(* wellformed: whether the captured text is JSON, json: the value]].  A    *)
(* JSON object here is [type: "object", nutrients, servings: Option of a   *)
(* JSON value].                                                            *)
(***************************************************************************)
\* The fields of struct Macros, in the order of the declaration.
MacrosFields ==
    <<"PROCNT", "FAT", "CHOCDF", "ENERC_KCAL", "SUGAR", "FIBTG", "CA", "FE",
      "MG", "P", "K", "NA", "ZN", "VITA_RAE", "TOCPHA", "VITD", "VITC",
      "THIA", "RIBF", "NIA", "VITB6A", "FOL", "VITB12", "VITK1", "CHOLE",
      "FATRN", "FASAT", "FAMS", "FAPU">>

\* Mutant: the vector of normalize_by_servings with its last field left out.
NormalizedFields_WithoutLast ==
    <<"PROCNT", "FAT", "CHOCDF", "ENERC_KCAL", "SUGAR", "FIBTG", "CA", "FE",
      "MG", "P", "K", "NA", "ZN", "VITA_RAE", "TOCPHA", "VITD", "VITC",
      "THIA", "RIBF", "NIA", "VITB6A", "FOL", "VITB12", "VITK1", "CHOLE",
      "FATRN", "FASAT", "FAMS">>

\* The vector `nutrients` that normalize_by_servings builds (lines 69-99).
NormalizedFields ==
    <<"PROCNT", "FAT", "CHOCDF", "ENERC_KCAL", "SUGAR", "FIBTG", "CA", "FE",
      "MG", "P", "K", "NA", "ZN", "VITA_RAE", "TOCPHA", "VITD", "VITC",
      "THIA", "RIBF", "NIA", "VITB6A", "FOL", "VITB12", "VITK1", "CHOLE",
      "FATRN", "FASAT", "FAMS", "FAPU">>

RECURSIVE GCD(_, _)
GCD(a, b) == IF b = 0 THEN a ELSE GCD(b, a % b)

\* f64 values: <<n, d>> is n/d in lowest terms; <<1, 0>> is inf, <<0, 0>> NaN.
Inf == <<1, 0>>
NaN == <<0, 0>>
Fraction(n, d) == <<n \div GCD(n, d), d \div GCD(n, d)>>

\* x / (servings as f64), for x >= 0.
F64Div(x, servings) ==
    IF x[2] = 0 THEN x
    ELSE IF servings = 0 THEN (IF x[1] = 0 THEN NaN ELSE Inf)
    ELSE Fraction(x[1], x[2] * servings)

\* The loop of normalize_by_servings over the vector (lines 101-105).
RECURSIVE NormalizeEach(_, _, _)
NormalizeEach(macros, fields, servings) ==
    IF fields = <<>> THEN macros
    ELSE NormalizeEach(
            [macros EXCEPT ![Head(fields)].quantity = F64Div(@, servings),
                           ![Head(fields)].daily = F64Div(@, servings)],
            Tail(fields), servings)

\* Macros::normalize_by_servings
NormalizeByServings(macros, servings) == NormalizeEach(macros, NormalizedFields, servings)

\* Value::as_u64: Some for a non-negative integer number.
AsU64(v) == IF v.type = "number" /\ v.integer /\ v.n >= 0 THEN Some(v.n) ELSE None

\* serde_json::from_value::<Nutrient>: the four fields are required.
NutrientFromValue(v) ==
    IF v.type = "object" /\ IsSome(v.unit) /\ IsSome(v.label)
       /\ IsSome(v.quantity) /\ IsSome(v.daily)
    THEN [kind |-> "Ok",
          val |-> [unit |-> Unwrap(v.unit), label |-> Unwrap(v.label),
                   quantity |-> Unwrap(v.quantity), daily |-> Unwrap(v.daily)]]
    ELSE [kind |-> "Err", val |-> "invalid Nutrient"]

\* serde_json::from_value::<Option<Macros>>: null is None; an object must
\* hold every field of Macros (the derive sets no default), others are ignored.
MacrosFromValue(v) ==
    IF v.type = "null" THEN [kind |-> "Ok", val |-> None]
    ELSE IF v.type # "object" THEN [kind |-> "Err", val |-> "invalid type"]
    ELSE IF \E i \in 1..Len(MacrosFields) : MacrosFields[i] \notin DOMAIN v.fields
         THEN [kind |-> "Err", val |-> "missing field"]
    ELSE IF \E i \in 1..Len(MacrosFields) :
                NutrientFromValue(v.fields[MacrosFields[i]]).kind = "Err"
         THEN [kind |-> "Err", val |-> "invalid Nutrient"]
    ELSE [kind |-> "Ok",
          val |-> Some([k \in {MacrosFields[i] : i \in 1..Len(MacrosFields)} |->
                          NutrientFromValue(v.fields[k]).val])]

\* Value::get(key): None on anything but an object that holds the key.
JsonGet(v, key) == IF v.type = "object" THEN v[key] ELSE None

\* Mutant: servings is stored as soon as the payload has it.
ApplyPayload_StoresServingsFirst(rec, json) ==
    LET nutrients == JsonGet(json, "nutrients")
        servings  == JsonGet(json, "servings")
    IN  IF IsSome(servings) /\ IsSome(AsU64(Unwrap(servings)))
        THEN [kind |-> "Ok", err |-> "",
              r |-> [rec EXCEPT !.servings = Unwrap(AsU64(Unwrap(servings))),
                                !.macros = None]]
        ELSE [kind |-> "Ok", err |-> "", r |-> [rec EXCEPT !.macros = None]]

\* get_macros from the decoded JSON value on (lines 583-595).
ApplyPayload(rec, json) ==
    LET nutrients == JsonGet(json, "nutrients")
        servings  == JsonGet(json, "servings")
    IN  IF IsSome(nutrients) /\ IsSome(servings)
        THEN IF ~IsSome(AsU64(Unwrap(servings)))
             THEN [kind |-> "Panic", err |-> "Failed to parse servings to u64", r |-> rec]
             ELSE
             LET s == Unwrap(AsU64(Unwrap(servings)))
                 m == MacrosFromValue(Unwrap(nutrients))
             IN  IF m.kind = "Err"
                 THEN [kind |-> "Err", err |-> m.val, r |-> [rec EXCEPT !.servings = s]]
                 ELSE IF IsSome(m.val)
                 THEN [kind |-> "Ok", err |-> "",
                       r |-> [rec EXCEPT !.servings = s,
                                         !.macros = Some(NormalizeByServings(Unwrap(m.val), s))]]
                 ELSE [kind |-> "Ok", err |-> "",
                       r |-> [rec EXCEPT !.servings = s, !.macros = None]]
        ELSE [kind |-> "Ok", err |-> "", r |-> [rec EXCEPT !.macros = None]]

\* Recipe::get_macros, given the document served at the url.
GetMacros(rec, doc) ==
    IF doc.kind = "fetch_error"
    THEN [kind |-> "Err", err |-> "reqwest error", r |-> rec]
    ELSE IF ~IsSome(doc.script)
    THEN [kind |-> "Err", err |-> "Could not find script tag", r |-> rec]
    ELSE IF ~Unwrap(doc.script).pattern
    THEN [kind |-> "Err", err |-> "Regex pattern failed", r |-> rec]
    ELSE IF ~Unwrap(doc.script).wellformed
    THEN [kind |-> "Err", err |-> "invalid JSON", r |-> rec]
    ELSE ApplyPayload(rec, Unwrap(doc.script).json)

(***************************************************************************)
(* The header and instruction extractors, the text normalizer and the      *)
(* steps of parse_recipe.  A fetched page is [kind: "fetch_error"] or      *)
(* [kind: "doc", jump: Option of the first jump link [href: Option],       *)
(* block_id: Option of the id of the recipe block, header: Option of       *)
(* [h2, total_time: Option], body: Option of the entry-content element,    *)
(* nutrition: the document served at the nutrition url].  The body is      *)
(* [description: Option, ingredients: Option of the ul children of the     *)
(* container, instructions: Option of [h4, div2], iframes, notes: Option,  *)
(* details: Option of the li elements of the first ul of other-details].   *)
(***************************************************************************)
\* str::trim_start_matches and trim_end_matches: every leading (trailing)
\* repetition of the pattern goes.
RECURSIVE TrimStartMatches(_, _)
TrimStartMatches(t, pat) ==
    IF t # <<>> /\ Head(t) = pat THEN TrimStartMatches(Tail(t), pat) ELSE t

RECURSIVE TrimEndMatches(_, _)
TrimEndMatches(t, pat) ==
    IF t # <<>> /\ t[Len(t)] = pat
    THEN TrimEndMatches(SubSeq(t, 1, Len(t) - 1), pat) ELSE t

\* Lines 269-272.  An href is a sequence of pieces: "#", "-jump-target", or
\* a run of other characters.
JumpTargetId(href) == TrimEndMatches(TrimStartMatches(href, "#"), "-jump-target")

ErrNoJumpLink == "ID not found in document"
ErrNoBlock == "ID not found in document (after jump link was found)"

\* Mutant: a missing recipe block reported with the error of a missing link.
LocateBlock_OneError(doc) ==
    IF ~IsSome(doc.jump) \/ ~IsSome(Unwrap(doc.jump).href)
    THEN [kind |-> "Err", err |-> ErrNoJumpLink]
    ELSE IF doc.block_id # Some(JumpTargetId(Unwrap(Unwrap(doc.jump).href)))
    THEN [kind |-> "Err", err |-> ErrNoJumpLink]
    ELSE [kind |-> "Ok", err |-> ""]

\* Lines 262-274 and 387-389: the jump link, its target, the recipe block.
LocateBlock(doc) ==
    IF ~IsSome(doc.jump) \/ ~IsSome(Unwrap(doc.jump).href)
    THEN [kind |-> "Err", err |-> ErrNoJumpLink]
    ELSE IF doc.block_id # Some(JumpTargetId(Unwrap(Unwrap(doc.jump).href)))
    THEN [kind |-> "Err", err |-> ErrNoBlock]
    ELSE [kind |-> "Ok", err |-> ""]

\* `match u32::from_time_str(..) { Ok(t) => t, Err(e) => panic!(..) }`
OrPanic(t) == IF t.kind = "Ok" THEN t ELSE [kind |-> "Panic", val |-> t.val]

TimeOrPanic(text, debug) == OrPanic(FromTimeStr(text, debug))

\* Lines 412-417 for the outcome t of the match.
SetTotalTime(named, t) ==
    IF t.kind = "Panic" THEN [kind |-> "Panic", err |-> t.val, r |-> named]
    ELSE [kind |-> "Ok", err |-> "", r |-> [named EXCEPT !.total_time = t.val]]

\* Line 275 and Recipe::parse_header.
ParseHeader(rec, header, debug) ==
    IF ~IsSome(header)
    THEN [kind |-> "Panic", err |-> "unwrap on None: header", r |-> rec]
    ELSE IF ~IsSome(Unwrap(header).h2)
    THEN [kind |-> "Panic", err |-> "unwrap on None: h2", r |-> rec]
    ELSE
    LET named == [rec EXCEPT !.name = Unwrap(Unwrap(header).h2)]
    IN  IF ~IsSome(Unwrap(header).total_time)
        THEN [kind |-> "Panic", err |-> "unwrap on None: total time", r |-> named]
        ELSE SetTotalTime(named, TimeOrPanic(Unwrap(Unwrap(header).total_time), debug))

\* The loop of lines 290-292 over the ul elements found below the container.
RECURSIVE ParseAllIngredients(_, _)
ParseAllIngredients(rec, found) ==
    IF found = <<>> THEN [kind |-> "Ok", err |-> "", r |-> rec]
    ELSE LET one == ParseIngredients(rec, Head(found))
         IN  IF one.kind = "Ok" THEN ParseAllIngredients(one.r, Tail(found))
             ELSE [kind |-> one.kind, err |-> one.err, r |-> one.r]

\* The ol elements among the children of the second div (lines 534-536).
RECURSIVE OlChildren(_)
OlChildren(children) ==
    IF children = <<>> THEN <<>>
    ELSE (IF Head(children).tag = "ol" THEN <<Head(children)>> ELSE <<>>)
         \o OlChildren(Tail(children))

Min(a, b) == IF a < b THEN a ELSE b

\* Mutant: every list paired with a heading, a single list too.
ParseInstructions_PairsAlways(rec, block) ==
    IF ~IsSome(block.div2)
    THEN [kind |-> "Panic", err |-> "Could not find nth child in parse instructions",
          r |-> rec]
    ELSE [kind |-> "Ok", err |-> "",
          r |-> [rec EXCEPT !.instructions =
                    [i \in 1..Min(Len(block.h4), Len(OlChildren(Unwrap(block.div2)))) |->
                        [section |-> Some(TrimEndMatches(block.h4[i], ":")),
                         steps |-> OlChildren(Unwrap(block.div2))[i].steps]]]]

\* Recipe::parse_instructions.  A heading is its text in pieces, ":" one of them.
ParseInstructions(rec, block) ==
    IF ~IsSome(block.div2)
    THEN [kind |-> "Panic", err |-> "Could not find nth child in parse instructions",
          r |-> rec]
    ELSE
    LET ol_blocks == OlChildren(Unwrap(block.div2))
    IN  IF Len(ol_blocks) = 1
        THEN [kind |-> "Ok", err |-> "",
              r |-> [rec EXCEPT !.instructions =
                        <<[section |-> None, steps |-> ol_blocks[1].steps]>>]]
        ELSE [kind |-> "Ok", err |-> "",
              r |-> [rec EXCEPT !.instructions =
                        [i \in 1..Min(Len(block.h4), Len(ol_blocks)) |->
                            [section |-> Some(TrimEndMatches(block.h4[i], ":")),
                             steps |-> ol_blocks[i].steps]]]]

\* str::trim: leading and trailing white space goes (U+00A0 is white space).
IsWhite(c) == c \in {" ", "\t", "\n", "nbsp"}

RECURSIVE TrimStart(_)
TrimStart(t) == IF t # <<>> /\ IsWhite(Head(t)) THEN TrimStart(Tail(t)) ELSE t

RECURSIVE TrimEnd(_)
TrimEnd(t) ==
    IF t # <<>> /\ IsWhite(t[Len(t)]) THEN TrimEnd(SubSeq(t, 1, Len(t) - 1)) ELSE t

Trim(t) == TrimStart(TrimEnd(t))

\* Regex [\n\t]+ replaced by " ": each run of line breaks and tabs becomes one space.
RECURSIVE CollapseRuns(_, _)
CollapseRuns(t, in_run) ==
    IF t = <<>> THEN <<>>
    ELSE IF Head(t) \in {"\n", "\t"}
         THEN (IF in_run THEN <<>> ELSE <<" ">>) \o CollapseRuns(Tail(t), TRUE)
         ELSE <<Head(t)>> \o CollapseRuns(Tail(t), FALSE)

\* Recipe::clean_notes
CleanNotes(t) ==
    Trim(CollapseRuns([i \in 1..Len(t) |-> IF t[i] = "nbsp" THEN " " ELSE t[i]], FALSE))

\* body.find(Name("iframe")).next().and_then(|fr| fr.attr("src")) : lines 300-306.
VideoOf(iframes) == IF iframes = <<>> THEN None ELSE Head(iframes).src

\* Mutant: the address of the first iframe, whatever its title.
NutritionUrl_AnyFrame(iframes) ==
    IF iframes = <<>> THEN None
    ELSE IF IsSome(Head(iframes).data_l_src) THEN Head(iframes).data_l_src
    ELSE Head(iframes).src

\* The first iframe titled "nutritional information", and its data-l-src
\* (lines 376-379).
RECURSIVE NutritionUrl(_)
NutritionUrl(iframes) ==
    IF iframes = <<>> THEN None
    ELSE IF Head(iframes).nutritional THEN Head(iframes).data_l_src
    ELSE NutritionUrl(Tail(iframes))

\* Lines 331-334 and 342-345 for the outcome t of the match.
SetDetailTime(rec, class, t) ==
    IF t.kind = "Panic" THEN [kind |-> "Panic", err |-> t.val, r |-> rec]
    ELSE [kind |-> "Ok", err |-> "",
          r |-> IF class = "prep-time" THEN [rec EXCEPT !.prep_time = t.val]
                ELSE [rec EXCEPT !.cook_time = t.val]]

\* The body of the loop over the li elements of other-details (lines
\* 323-372) for the li of class `class`.  An li is [class: Option, time:
\* Option of the inner element's text for the two durations, text: Option of
\* it for the three words].
ParseDetail(rec, li, class, debug) ==
    IF class \in {"prep-time", "cook-time"}
    THEN IF ~IsSome(li.time)
         THEN [kind |-> "Panic", err |-> "unwrap on None: " \o class, r |-> rec]
         ELSE SetDetailTime(rec, class, TimeOrPanic(Unwrap(li.time), debug))
    ELSE IF class \in {"cuisine", "category", "method"}
    THEN IF ~IsSome(li.text)
         THEN [kind |-> "Panic", err |-> "unwrap on None: " \o class, r |-> rec]
         ELSE [kind |-> "Ok", err |-> "", r |-> [rec EXCEPT ![class] = Unwrap(li.text)]]
    ELSE [kind |-> "Ok", err |-> "", r |-> rec]

\* The loop of lines 322-373.
RECURSIVE ParseDetails(_, _, _)
ParseDetails(rec, lis, debug) ==
    IF lis = <<>> THEN [kind |-> "Ok", err |-> "", r |-> rec]
    ELSE LET one == ParseDetail(rec, Head(lis),
                                IF IsSome(Head(lis).class) THEN Unwrap(Head(lis).class)
                                ELSE "",
                                debug)
         IN  IF one.kind = "Ok" THEN ParseDetails(one.r, Tail(lis), debug) ELSE one

\* Lines 300-374: video, notes and the other details.
ParseOptional(rec, body, debug) ==
    LET video == VideoOf(body.iframes)
        a == IF IsSome(video) THEN [rec EXCEPT !.video = video] ELSE rec
        b == [a EXCEPT !.notes = IF IsSome(body.notes)
                                 THEN Some(CleanNotes(Trim(Unwrap(body.notes))))
                                 ELSE None]
    IN  IF IsSome(body.details) THEN ParseDetails(b, Unwrap(body.details), debug)
        ELSE [kind |-> "Ok", err |-> "", r |-> b]

\* Mutant: Recipe::new handing out the record whatever parse_recipe returned.
RecipeNew_AlwaysOk(parsed) == [kind |-> "Ok", err |-> ""]

\* Recipe::new, lines 246-249: what it returns for what parse_recipe returned.
RecipeNew(parsed) ==
    IF parsed.kind = "Ok" THEN [kind |-> "Ok", err |-> ""]
    ELSE [kind |-> "Err", err |-> parsed.err]

(***************************************************************************)
(* Specification SpecDuration: one call of u32::from_time_str on a text    *)
(* built from the duration grammar.                                        *)
(***************************************************************************)
RECURSIVE ToDigits(_)
ToDigits(n) ==
    IF n < 10 THEN <<Digits[n + 1]>> ELSE ToDigits(n \div 10) \o <<Digits[(n % 10) + 1]>>

\* The integers a duration is written with: small ones, the spec's examples,
\* one with leading zeros, and the ones around the width of u32.
DurationNumbers ==
    {ToDigits(n) : n \in 0..MaxSmallNumber}
    \cup {ToDigits(30), ToDigits(45), <<"0", "0", "7">>,
          ToDigits(71582788), ToDigits(71582789),
          ToDigits(429496729) \o <<"5">>, ToDigits(429496729) \o <<"6">>}

Whitespace == {<<>>, <<" ">>}

Plural == {<<>>, <<"s">>}

\* '<integer> <unit word>' with its whitespace, and what integer it was written with.
DurationParts(words) ==
    {[text |-> <<>>, digits |-> None]}
    \cup {[text |-> w1 \o n \o w2 \o words[i] \o pl, digits |-> Some(n)] :
            w1 \in Whitespace, n \in DurationNumbers, w2 \in Whitespace,
            i \in 1..Len(words), pl \in Plural}

\* Tabs and line breaks between the tokens.
WideSpacedInputs ==
    {[text |-> <<"\t">> \o n \o <<"\n", " ">> \o HourWords[1] \o <<" ", "\t">>
               \o n \o <<"\t">> \o MinuteWords[2] \o <<"s">>,
      hours |-> Some(n), minutes |-> Some(n)] : n \in DurationNumbers}

GrammarInputs ==
    {[text |-> h.text \o m.text, hours |-> h.digits, minutes |-> m.digits] :
        h \in DurationParts(HourWords), m \in DurationParts(MinuteWords)}
    \cup WideSpacedInputs

\* Texts that are no duration: words, a unit word without an integer, an
\* integer without a unit word, an unknown unit, a duration after other words.
NonDurationInputs ==
    {[text |-> t, hours |-> None, minutes |-> None] :
        t \in {<<"s", "o", "o", "n">>,
                <<"m", "i", "n", "u", "t", "e", "s">>,
                <<"4", "5">>,
                <<"2", " ", "d", "a", "y", "s">>,
                <<"a", "b", "o", "u", "t", " ", "5", " ", "m", "i", "n">>,
                <<"-">>}}

IngredientVarsIdle ==
    /\ sum_by_name = <<>>
    /\ first_seen = <<>>
    /\ calls = 0
    /\ uls = <<>>

OtherVarsIdle ==
    /\ r = DefaultRecipe
    /\ res = NoResult
    /\ IngredientVarsIdle
    /\ nut_doc = [kind |-> "none"]
    /\ figures = <<>>
    /\ idx = 0
    /\ out = <<>>
    /\ log = <<>>
    /\ document = [kind |-> "none"]
    /\ stages = <<>>
    /\ fetches = <<>>
    /\ panic = NoPanic

InitDuration ==
    /\ pc = "start"
    /\ debug_build \in BOOLEAN
    /\ time_in \in GrammarInputs \cup NonDurationInputs
    /\ time_out = NoResult
    /\ OtherVarsIdle

CallFromTimeStr ==
    /\ pc = "start"
    /\ time_out' = FromTimeStr(time_in.text, debug_build)
    /\ pc' = IF time_out'.kind = "Panic" THEN "panicked" ELSE "done"
    /\ panic' = IF time_out'.kind = "Panic" THEN time_out'.val ELSE NoPanic
    /\ UNCHANGED <<debug_build, time_in, r, res, sum_by_name, first_seen, calls,
                   uls, nut_doc, figures, idx, out, log, document, stages, fetches>>

NextDuration == CallFromTimeStr

SpecDuration == InitDuration /\ [][NextDuration]_vars

\* The value the grammar gives a text: hours * 60 + minutes, a missing part 0.
DurationValue(in) ==
    Times60Plus(IF in.hours = None THEN <<0, 0>> ELSE DecimalValue(Unwrap(in.hours), <<0, 0>>),
                IF in.minutes = None THEN <<0, 0>> ELSE DecimalValue(Unwrap(in.minutes), <<0, 0>>))

\* C10: from_time_str returns hours * 60 + minutes for every text made of an
\* optional '<integer> <hour word>' and an optional '<integer> <minute word>'.
C10_ReturnsHoursTimes60PlusMinutes ==
    (pc # "start" /\ time_in \in GrammarInputs) =>
        /\ time_out.kind = "Ok"
        /\ time_out.val = DurationValue(time_in)

\* The same for the texts whose value fits a u32: these the code gets right.
DurationInRange ==
    (pc # "start" /\ time_in \in GrammarInputs /\ IsU32(DurationValue(time_in))
        /\ (time_in.hours # None => IsU32(DecimalValue(Unwrap(time_in.hours), <<0, 0>>)))
        /\ (time_in.minutes # None => IsU32(DecimalValue(Unwrap(time_in.minutes), <<0, 0>>))))
    => /\ time_out.kind = "Ok"
       /\ time_out.val = DurationValue(time_in)

\* The spec's examples.
DurationExamples ==
    /\ FromTimeStr(<<"1", " ", "h", "o", "u", "r", " ", "3", "0", " ",
                      "m", "i", "n", "u", "t", "e", "s">>, TRUE).val = U32(90)
    /\ FromTimeStr(<<"4", "5", " ", "m", "i", "n", "u", "t", "e", "s">>, TRUE).val = U32(45)
    /\ FromTimeStr(<<"2", " ", "h", "r", "s">>, TRUE).val = U32(120)
    /\ FromTimeStr(<<>>, TRUE) = [kind |-> "Ok", val |-> U32(0)]

\* C11: from_time_str returns an error for a text that is no duration, and
\* returns 0 with both parts absent only for a text of white space alone.
C11_FailsOnNonDurationText ==
    pc # "start" =>
        /\ time_in \in NonDurationInputs => time_out.kind = "Err"
        /\ (time_out = [kind |-> "Ok", val |-> U32(0)]
                /\ time_in.hours = None /\ time_in.minutes = None)
            => \A i \in 1..Len(time_in.text) : IsSpace(time_in.text[i])

\* What the code does with such a text: the pattern matches the empty string
\* at the start of any text, so the result is Ok(0).
NonDurationGivesZero ==
    (pc # "start" /\ time_in \in NonDurationInputs)
        => time_out = [kind |-> "Ok", val |-> U32(0)]


(***************************************************************************)
(* Specification SpecIngredients: the loop of parse_recipe over the ul     *)
(* elements of the ingredients container (lines 289-293), one              *)
(* parse_ingredients call a step.  The container's next ul child is read   *)
(* when the loop reaches it.                                               *)
(***************************************************************************)
Chars(n) == ToDigits(n)

Checkbox == [amount |-> None, unit |-> None, inner |-> None]

AmountSpan(a, u) == [amount |-> Some(a), unit |-> u, inner |-> None]

WrapperSpan(in, u) == [amount |-> None, unit |-> u, inner |-> in]

OneAndAHalf == <<"1", ".", "5">>
Half == <<"0", ".", "5">>
NotANumber == <<"a", "b", "c">>

Item(strong, b, em, spans, sub) ==
    [strong |-> strong, b |-> b, em |-> em, spans |-> spans, sub |-> sub]

Names == {"flour", "salt", "sugar"}

FlourCups == Item(Some("flour"), None, None,
                  <<Checkbox, AmountSpan(OneAndAHalf, Some("Cups"))>>, <<>>)
FlourSpoons == Item(Some("flour"), None, Some("sifted"),
                    <<Checkbox, AmountSpan(Chars(2), Some("tablespoon"))>>, <<>>)
SaltToTaste == Item(Some("salt"), None, Some("to taste"), <<Checkbox>>, <<>>)
SugarInner == Item(None, Some("sugar"), None,
                   <<Checkbox, WrapperSpan(Some([amount |-> Some(Half)]), Some("Tbsp"))>>,
                   <<>>)
Nameless == Item(None, None, None, <<Checkbox, AmountSpan(Chars(1), None)>>, <<>>)
BadOuterAmount == Item(Some("flour"), None, None,
                       <<Checkbox, AmountSpan(NotANumber, None)>>, <<>>)
BadInnerAmount == Item(Some("salt"), None, None,
                       <<Checkbox, WrapperSpan(Some([amount |-> Some(NotANumber)]), None)>>,
                       <<>>)
NoInnerSpan == Item(Some("salt"), None, None, <<Checkbox, WrapperSpan(None, None)>>, <<>>)
\* An item with a ul nested in it.
SugarWithSubList == Item(Some("sugar"), None, None,
                         <<Checkbox, AmountSpan(Chars(1), Some("cup"))>>,
                         <<Item(Some("salt"), None, None,
                                <<Checkbox, AmountSpan(Chars(2), Some("teaspoons"))>>,
                                <<>>)>>)

IngredientItems ==
    {FlourCups, FlourSpoons, SaltToTaste, SugarInner, Nameless, BadOuterAmount,
     SugarWithSubList}

SeqsUpTo(S, n) == UNION {[1..k -> S] : k \in 0..n}

IngredientLists == SeqsUpTo(IngredientItems, MaxItems)

\* History: the sum of the quantities of `batch` that carry `name`.
RECURSIVE QuantityOf(_, _)
QuantityOf(batch, name) ==
    IF batch = <<>> THEN 0
    ELSE (IF Head(batch).name = name THEN Head(batch).quantity ELSE 0)
         + QuantityOf(Tail(batch), name)

\* History: `seen` followed by the names of `batch` that it lacks, in order.
RECURSIVE SeenAfter(_, _)
SeenAfter(seen, batch) ==
    IF batch = <<>> THEN seen
    ELSE SeenAfter(IF \E i \in 1..Len(seen) : seen[i] = Head(batch).name
                   THEN seen ELSE Append(seen, Head(batch).name),
                   Tail(batch))

InitIngredients ==
    /\ pc = "ingredients"
    /\ debug_build = TRUE
    /\ time_in = [text |-> <<>>, hours |-> None, minutes |-> None]
    /\ time_out = NoResult
    /\ r = DefaultRecipe
    /\ res = NoResult
    /\ sum_by_name = [n \in Names |-> 0]
    /\ first_seen = <<>>
    /\ calls = 0
    /\ uls = <<>>
    /\ nut_doc = [kind |-> "none"]
    /\ figures = <<>>
    /\ idx = 0
    /\ out = <<>>
    /\ log = <<>>
    /\ document = [kind |-> "none"]
    /\ stages = <<>>
    /\ fetches = <<>>
    /\ panic = NoPanic

\* One turn of the loop: the next ul is parsed.  When the ul elements found so
\* far are used up, the next child `top` of the container is read, and the ul
\* elements nested in it follow it.
ParseIngredientsCall ==
    /\ pc = "ingredients"
    /\ \E top \in IngredientLists :
        /\ uls = <<>> => calls < MaxCalls
        /\ LET queue == IF uls = <<>> THEN DescendantUls(<<top>>) ELSE uls
               result == ParseIngredients(r, Head(queue))
           IN  /\ r' = result.r
               /\ res' = [kind |-> result.kind, err |-> result.err]
               /\ uls' = IF result.kind = "Ok" THEN Tail(queue) ELSE <<>>
               /\ pc' = CASE result.kind = "Ok" -> "ingredients"
                           [] result.kind = "Err" -> "returned"
                           [] OTHER -> "panicked"
               /\ panic' = IF result.kind = "Panic" THEN result.err ELSE NoPanic
               /\ sum_by_name' = [n \in Names |->
                                    sum_by_name[n] + QuantityOf(result.added, n)]
               /\ first_seen' = SeenAfter(first_seen, result.added)
    /\ calls' = calls + 1
    /\ UNCHANGED <<debug_build, time_in, time_out, nut_doc, figures, idx, out, log,
                   document, stages, fetches>>

\* The container has no further ul.
IngredientsEnd ==
    /\ pc = "ingredients"
    /\ uls = <<>>
    /\ pc' = "done"
    /\ UNCHANGED <<debug_build, time_in, time_out, r, res, sum_by_name, first_seen,
                   calls, uls, nut_doc, figures, idx, out, log, document, stages,
                   fetches, panic>>

NextIngredients == ParseIngredientsCall \/ IngredientsEnd

SpecIngredients == InitIngredients /\ [][NextIngredients]_vars

\* C1: a parse_ingredients call leaves every entry the collection already holds
\* at its position with its name, units and preparation note, adds to its
\* quantity the quantities that came in under its name, and lengthens the
\* collection only by the names that are new.
C1_MergeAddsQuantityOnly ==
    [][/\ Len(r'.ingredients) - Len(r.ingredients) = Len(first_seen') - Len(first_seen)
       /\ \A i \in 1..Len(r.ingredients) :
            /\ r'.ingredients[i].name = r.ingredients[i].name
            /\ r'.ingredients[i].units = r.ingredients[i].units
            /\ r'.ingredients[i].prepped = r.ingredients[i].prepped
            /\ r'.ingredients[i].quantity
                 = r.ingredients[i].quantity
                   + sum_by_name'[r.ingredients[i].name]
                   - sum_by_name[r.ingredients[i].name]]_vars

\* 1.5 cups of flour, then 2 tablespoons of sifted flour: one entry, 3.5 cups.
C1_Witness ==
    /\ calls >= 2
    /\ \E i \in 1..Len(r.ingredients) :
        r.ingredients[i] = [name |-> "flour", quantity |-> 7, units |-> Some("CUP"),
                            prepped |-> None]

\* C2: no two entries share a name, the entries stand in the order their
\* names were first seen, and each quantity is the sum of what came in
\* under its name.
C2_UniqueOrderedSummed ==
    /\ \A i, j \in 1..Len(r.ingredients) :
        i # j => r.ingredients[i].name # r.ingredients[j].name
    /\ Len(r.ingredients) = Len(first_seen)
    /\ \A i \in 1..Len(r.ingredients) :
        /\ r.ingredients[i].name = first_seen[i]
        /\ r.ingredients[i].quantity = sum_by_name[first_seen[i]]

\* The spec's example: 1.5 and 2.0 merge into 3.5, a third name stays apart.
C2_Witness ==
    /\ calls = 2
    /\ Len(r.ingredients) = 2
    /\ r.ingredients[1].name = "flour" /\ r.ingredients[1].quantity = 7
    /\ r.ingredients[2].name = "salt"
    /\ first_seen = <<"flour", "salt">>


(***************************************************************************)
(* Specification SpecOneList: one call of parse_ingredients on a ul, held  *)
(* in `uls`, for a Recipe without ingredients.                             *)
(***************************************************************************)
AllIngredientItems == IngredientItems \cup {BadInnerAmount, NoInnerSpan}

InitOneList ==
    /\ pc = "ingredients"
    /\ debug_build = TRUE
    /\ time_in = [text |-> <<>>, hours |-> None, minutes |-> None]
    /\ time_out = NoResult
    /\ r = DefaultRecipe
    /\ res = NoResult
    /\ sum_by_name = [n \in Names |-> 0]
    /\ first_seen = <<>>
    /\ calls = 0
    /\ uls \in {<<ul>> : ul \in SeqsUpTo(AllIngredientItems, MaxItems)}
    /\ nut_doc = [kind |-> "none"]
    /\ figures = <<>>
    /\ idx = 0
    /\ out = <<>>
    /\ log = <<>>
    /\ document = [kind |-> "none"]
    /\ stages = <<>>
    /\ fetches = <<>>
    /\ panic = NoPanic

CallParseIngredients ==
    /\ pc = "ingredients"
    /\ LET result == ParseIngredients(r, uls[1])
       IN  /\ r' = result.r
           /\ res' = [kind |-> result.kind, err |-> result.err]
           /\ pc' = CASE result.kind = "Ok" -> "done"
                       [] result.kind = "Err" -> "returned"
                       [] OTHER -> "panicked"
           /\ panic' = IF result.kind = "Panic" THEN result.err ELSE NoPanic
           /\ sum_by_name' = [n \in Names |-> sum_by_name[n] + QuantityOf(result.added, n)]
           /\ first_seen' = SeenAfter(first_seen, result.added)
    /\ calls' = calls + 1
    /\ UNCHANGED <<debug_build, time_in, time_out, uls, nut_doc, figures, idx, out,
                   log, document, stages, fetches>>

NextOneList == CallParseIngredients

SpecOneList == InitOneList /\ [][NextOneList]_vars

\* The li has a second span whose data-amount, on the span itself or else on
\* the span nested in it, is present and is no number.
HasBadAmount(li) ==
    /\ Len(li.spans) >= 2
    /\ \/ li.spans[2].amount = Some(NotANumber)
       \/ /\ li.spans[2].amount = None
          /\ IsSome(li.spans[2].inner)
          /\ Unwrap(li.spans[2].inner).amount = Some(NotANumber)

\* The name of an li that has one: the text of its strong, else of its b.
NameOf(li) == IF IsSome(li.strong) THEN Unwrap(li.strong) ELSE Unwrap(li.b)

\* No other li of the ul, nested ones included, carries the name of li.
NamedOnce(li, ul) ==
    Cardinality({j \in 1..Len(DescendantLis(ul)) :
                    NameOf(DescendantLis(ul)[j]) = NameOf(li)}) = 1

\* C15: an li without a second span gives an entry of quantity 0 without
\* units; a list with an li whose data-amount is present and no number, in
\* either position, makes parse_ingredients return an error, and then no item
\* of the list is added to the collection.
C15_QuantityResolution ==
    pc # "ingredients" =>
        /\ pc = "done" =>
                \A i \in 1..Len(uls[1]) :
                    (Len(uls[1][i].spans) < 2 /\ NamedOnce(uls[1][i], uls[1])) =>
                        \E k \in 1..Len(r.ingredients) :
                            /\ r.ingredients[k].name = NameOf(uls[1][i])
                            /\ r.ingredients[k].quantity = 0
                            /\ r.ingredients[k].units = None
        /\ (\E i \in 1..Len(uls[1]) : HasBadAmount(uls[1][i])) =>
                /\ pc = "returned" /\ res.kind = "Err"
                /\ r.ingredients = <<>>
        /\ pc # "done" => r.ingredients = <<>>

(***************************************************************************)
(* Specification SpecMacros: one call of get_macros on a fresh Recipe, as  *)
(* parse_recipe and the test test_get_macros make it.                      *)
(***************************************************************************)
JsonNumber(n) == [type |-> "number", integer |-> TRUE, n |-> n]

ServingsValues ==
    {JsonNumber(n) : n \in 0..MaxServings}
    \cup {JsonNumber(-1),
          [type |-> "number", integer |-> FALSE, n |-> 2],     \* 2.5
          [type |-> "string", integer |-> FALSE, n |-> 4],     \* "4"
          [type |-> "null", integer |-> FALSE, n |-> 0]}

NutrientValue(q, d) ==
    [type |-> "object", unit |-> Some("g"), label |-> Some("label"),
     quantity |-> Some(q), daily |-> Some(d)]

SlotSet == {MacrosFields[i] : i \in 1..Len(MacrosFields)}

\* A nutrients object with every field: `hot` holds (q, d), the others (80, 10).
FullNutrients(hot, q, d) ==
    [type |-> "object",
     fields |-> [k \in SlotSet |->
                    IF k = hot THEN NutrientValue(q, d)
                    ELSE NutrientValue(<<80, 1>>, <<10, 1>>)]]

NutrientsValues ==
    {FullNutrients(hot, q, d) :
        hot \in SlotSet, q \in {<<0, 1>>, <<80, 1>>, <<3, 2>>}, d \in {<<0, 1>>, <<25, 1>>}}
    \cup {[type |-> "null", fields |-> <<>>],
          [type |-> "string", fields |-> <<>>],
          \* one field missing
          [type |-> "object",
           fields |-> [k \in SlotSet \ {"VITK1"} |-> NutrientValue(<<80, 1>>, <<10, 1>>)]],
          \* one nutrient without its quantity
          [type |-> "object",
           fields |-> [k \in SlotSet |->
                          IF k = "FAT"
                          THEN [NutrientValue(<<80, 1>>, <<10, 1>>) EXCEPT !.quantity = None]
                          ELSE NutrientValue(<<80, 1>>, <<10, 1>>)]]}

JsonValues ==
    {[type |-> "object", nutrients |-> n, servings |-> s] :
        n \in {None} \cup {Some(v) : v \in NutrientsValues},
        s \in {None} \cup {Some(v) : v \in ServingsValues}}
    \cup {[type |-> "array", nutrients |-> None, servings |-> None]}

NoJson == [type |-> "null", nutrients |-> None, servings |-> None]

NutritionDocs ==
    {[kind |-> "fetch_error", script |-> None],
     [kind |-> "doc", script |-> None],
     [kind |-> "doc", script |-> Some([pattern |-> FALSE, wellformed |-> FALSE, json |-> NoJson])],
     [kind |-> "doc", script |-> Some([pattern |-> TRUE, wellformed |-> FALSE, json |-> NoJson])]}
    \cup {[kind |-> "doc", script |-> Some([pattern |-> TRUE, wellformed |-> TRUE, json |-> j])] :
            j \in JsonValues}

InitMacros ==
    /\ pc = "macros"
    /\ debug_build = TRUE
    /\ time_in = [text |-> <<>>, hours |-> None, minutes |-> None]
    /\ time_out = NoResult
    /\ r = DefaultRecipe
    /\ res = NoResult
    /\ IngredientVarsIdle
    /\ nut_doc \in NutritionDocs
    /\ figures = <<>>
    /\ idx = 0
    /\ out = <<>>
    /\ log = <<>>
    /\ document = [kind |-> "none"]
    /\ stages = <<>>
    /\ fetches = <<>>
    /\ panic = NoPanic

CallGetMacros ==
    /\ pc = "macros"
    /\ LET result == GetMacros(r, nut_doc)
       IN  /\ r' = result.r
           /\ res' = [kind |-> result.kind, err |-> result.err]
           /\ pc' = IF result.kind = "Panic" THEN "panicked" ELSE "done"
           /\ panic' = IF result.kind = "Panic" THEN result.err ELSE NoPanic
    /\ UNCHANGED <<debug_build, time_in, time_out, sum_by_name, first_seen, calls,
                   uls, nut_doc, figures, idx, out, log, document, stages, fetches>>

NextMacros == CallGetMacros

SpecMacros == InitMacros /\ [][NextMacros]_vars

\* The JSON value get_macros decoded, when it got that far.
Decoded == IsSome(nut_doc.script) /\ Unwrap(nut_doc.script).pattern
           /\ Unwrap(nut_doc.script).wellformed

Payload == Unwrap(nut_doc.script).json

\* C8: a payload without "nutrients" or without "servings": the call succeeds,
\* macros is None, and the recipe is otherwise as it was (servings untouched,
\* nothing normalized).
C8_MissingFieldLeavesMacrosUnset ==
    (pc # "macros" /\ nut_doc.kind = "doc" /\ Decoded
        /\ (~IsSome(JsonGet(Payload, "nutrients")) \/ ~IsSome(JsonGet(Payload, "servings"))))
    => /\ pc = "done"
       /\ res.kind = "Ok"
       /\ r.macros = None
       /\ r.servings = DefaultRecipe.servings
       /\ r = DefaultRecipe

C8_Witness ==
    /\ pc = "done" /\ nut_doc.kind = "doc" /\ Decoded
    /\ Payload.type = "object"
    /\ ~IsSome(Payload.nutrients)
    /\ IsSome(Payload.servings) /\ AsU64(Unwrap(Payload.servings)) = Some(4)
    /\ res.kind = "Ok"

\* a = b / s for f64 values a and b (finite b).
IsQuotient(a, b, s) ==
    IF s = 0 THEN a = (IF b[1] = 0 THEN NaN ELSE Inf)
    ELSE a[2] # 0 /\ a[1] * b[2] * s = b[1] * a[2]

\* C9: when get_macros succeeds with Macros, servings is the payload's, and
\* the quantity and the daily value of every field of Macros are the
\* payload's divided by servings, once; normalizing again by 1 changes nothing.
C9_EverySlotDividedOnce ==
    (pc = "done" /\ res.kind = "Ok" /\ IsSome(r.macros))
    => /\ nut_doc.kind = "doc" /\ Decoded
       /\ r.servings = Unwrap(AsU64(Unwrap(Payload.servings)))
       /\ DOMAIN Unwrap(r.macros) = SlotSet
       /\ \A k \in SlotSet :
            LET got  == Unwrap(r.macros)[k]
                sent == Unwrap(Payload.nutrients).fields[k]
            IN  /\ IsQuotient(got.quantity, Unwrap(sent.quantity), r.servings)
                /\ IsQuotient(got.daily, Unwrap(sent.daily), r.servings)
                /\ got.unit = Unwrap(sent.unit) /\ got.label = Unwrap(sent.label)
       /\ NormalizeByServings(Unwrap(r.macros), 1) = Unwrap(r.macros)

\* The spec's example: servings 4 and a quantity of 80 give 20.
C9_Witness ==
    /\ pc = "done" /\ res.kind = "Ok" /\ IsSome(r.macros)
    /\ r.servings = 4
    /\ Unwrap(Unwrap(Payload.nutrients).fields["FAPU"].quantity) = <<80, 1>>
    /\ Unwrap(r.macros)["FAPU"].quantity = <<20, 1>>
    /\ Unwrap(r.macros)["PROCNT"].daily = <<25, 4>>


\* C14: normalize_by_servings is never called with servings = 0, so Macros
\* kept by a successful get_macros hold no quotient by zero; and servings
\* that is no non-negative integer makes get_macros return an error.
C14_ZeroServingsGuarded ==
    pc # "macros" =>
        /\ (res.kind = "Ok" /\ IsSome(r.macros)) =>
                /\ r.servings # 0
                /\ \A k \in DOMAIN Unwrap(r.macros) :
                        /\ Unwrap(r.macros)[k].quantity \notin {Inf, NaN}
                        /\ Unwrap(r.macros)[k].daily \notin {Inf, NaN}
        /\ (nut_doc.kind = "doc" /\ Decoded
                /\ IsSome(JsonGet(Payload, "nutrients")) /\ IsSome(JsonGet(Payload, "servings"))
                /\ ~IsSome(AsU64(Unwrap(JsonGet(Payload, "servings")))))
            => pc = "done" /\ res.kind = "Err"

(***************************************************************************)
(* Specification SpecInstructions: one call of parse_instructions on an    *)
(* instructions block, held in `document` as [h4: the texts of its h4      *)
(* elements, div2: Option of the children of its second div].              *)
(***************************************************************************)
MaxHeadings == 2        \* h4 elements of an instructions block
MaxChildren == 3        \* children of the second div

\* Heading texts, in pieces: with one trailing colon, without, with two.
HeadingTexts == {<<"Sauce", ":">>, <<"Pasta">>, <<"To", ":", "serve", ":", ":">>}

ThreeSteps == [tag |-> "ol", steps |-> <<"boil", "stir", "drain">>]
FourSteps == [tag |-> "ol", steps |-> <<"chop", "fry", "mix", "serve">>]
Paragraph == [tag |-> "p", steps |-> <<>>]

InstructionBlocks ==
    {[h4 |-> h, div2 |-> d] :
        h \in SeqsUpTo(HeadingTexts, MaxHeadings),
        d \in {None} \cup {Some(c) : c \in SeqsUpTo({ThreeSteps, FourSteps, Paragraph},
                                                    MaxChildren)}}

InitInstructions ==
    /\ pc = "instructions"
    /\ debug_build = TRUE
    /\ time_in = [text |-> <<>>, hours |-> None, minutes |-> None]
    /\ time_out = NoResult
    /\ r = DefaultRecipe
    /\ res = NoResult
    /\ IngredientVarsIdle
    /\ nut_doc = [kind |-> "none"]
    /\ figures = <<>>
    /\ idx = 0
    /\ out = <<>>
    /\ log = <<>>
    /\ document \in InstructionBlocks
    /\ stages = <<>>
    /\ fetches = <<>>
    /\ panic = NoPanic

CallParseInstructions ==
    /\ pc = "instructions"
    /\ LET result == ParseInstructions(r, document)
       IN  /\ r' = result.r
           /\ res' = [kind |-> result.kind, err |-> result.err]
           /\ pc' = IF result.kind = "Panic" THEN "panicked" ELSE "done"
           /\ panic' = IF result.kind = "Panic" THEN result.err ELSE NoPanic
    /\ UNCHANGED <<debug_build, time_in, time_out, sum_by_name, first_seen, calls,
                   uls, nut_doc, figures, idx, out, log, document, stages, fetches>>

NextInstructions == CallParseInstructions

SpecInstructions == InitInstructions /\ [][NextInstructions]_vars

\* L: the ol elements among the children of the second div, in document order.
OrderedLists == SelectSeq(Unwrap(document.div2), LAMBDA c : c.tag = "ol")

\* s is h without its trailing colons.
IsStripped(s, h) ==
    \E k \in 0..Len(h) :
        /\ s = SubSeq(h, 1, k)
        /\ k > 0 => h[k] # ":"
        /\ \A j \in (k + 1)..Len(h) : h[j] = ":"

\* C12: with H the headings and L the ordered lists of the second div, one
\* list gives one group without a section and with the steps of that list;
\* otherwise there are min(|H|, |L|) groups, the i-th with the i-th heading
\* (trailing colon stripped) as its section and the steps of the i-th list.
C12_PairsHeadingsWithLists ==
    (pc # "instructions" /\ IsSome(document.div2)) =>
        /\ pc = "done" /\ res.kind = "Ok"
        /\ IF Len(OrderedLists) = 1
           THEN r.instructions = <<[section |-> None, steps |-> OrderedLists[1].steps]>>
           ELSE /\ Len(r.instructions) = Min(Len(document.h4), Len(OrderedLists))
                /\ \A i \in 1..Len(r.instructions) :
                    /\ IsSome(r.instructions[i].section)
                    /\ IsStripped(Unwrap(r.instructions[i].section), document.h4[i])
                    /\ r.instructions[i].steps = OrderedLists[i].steps
        /\ r = [DefaultRecipe EXCEPT !.instructions = r.instructions]

\* The spec's example: two headings and two lists of 3 and 4 steps, a
\* paragraph between the lists.
C12_Witness ==
    /\ pc = "done"
    /\ Len(document.h4) = 2
    /\ document.div2 = Some(<<ThreeSteps, Paragraph, FourSteps>>)
    /\ Len(r.instructions) = 2
    /\ Len(r.instructions[1].steps) = 3 /\ Len(r.instructions[2].steps) = 4
    /\ r.instructions[1].section = Some(<<"Sauce">>)

(***************************************************************************)
(* Specification Spec: get_recipes over the figure entries of a listing    *)
(* document, Recipe::new and the steps of parse_recipe for each.  What a   *)
(* url serves is read when it is fetched.                                  *)
(***************************************************************************)
Text(n, word) == ToDigits(n) \o <<" ">> \o word

T_90 == Text(1, HourWords[1]) \o <<" ">> \o Text(30, MinuteWords[1]) \o <<"s">>
T_45 == Text(45, MinuteWords[1]) \o <<"s">>
T_120 == Text(2, HourWords[2]) \o <<"s">>
\* 4294967296 minutes: the integer does not fit a u32.
T_TooLong == ToDigits(429496729) \o <<"6", " ">> \o MinuteWords[1] \o <<"s">>
\* 71582789 hours: the product does not fit a u32.
T_TooManyHours == Text(71582789, HourWords[1]) \o <<"s">>

VideoFrame == [src |-> Some("//video/1"), nutritional |-> FALSE, data_l_src |-> None]
NutritionFrame ==
    [src |-> None, nutritional |-> TRUE, data_l_src |-> Some("//nutrifox.com/embed/label/1")]

GoodNutrition ==
    [kind |-> "doc",
     script |-> Some([pattern |-> TRUE, wellformed |-> TRUE,
                      json |-> [type |-> "object",
                                nutrients |-> Some(FullNutrients("FAT", <<3, 2>>, <<25, 1>>)),
                                servings |-> Some(JsonNumber(4))]])]

NutritionWith(n, sv) ==
    [GoodNutrition EXCEPT !.script = Some([pattern |-> TRUE, wellformed |-> TRUE,
                                           json |-> [type |-> "object", nutrients |-> n,
                                                     servings |-> sv]])]

DetailTime(class, t) == [class |-> Some(class), time |-> t, text |-> None]
DetailText(class, t) == [class |-> class, time |-> None, text |-> t]

GoodDetails ==
    <<DetailTime("prep-time", Some(T_45)), DetailTime("cook-time", Some(T_120)),
      DetailText(Some("cuisine"), Some("Italian")),
      DetailText(Some("category"), Some("Dinner")),
      DetailText(Some("method"), Some("Oven")),
      DetailText(Some("diet"), Some("Vegan")), DetailText(None, None)>>

GoodInstructions ==
    [h4 |-> << <<"Sauce", ":">>, <<"Pasta">>, <<"Extra">> >>,
     div2 |-> Some(<<[tag |-> "ol", steps |-> <<"boil", "stir">>],
                     [tag |-> "p", steps |-> <<>>],
                     [tag |-> "ol", steps |-> <<"serve">>]>>)]

GoodBody ==
    [description |-> Some(<<" ", "Tasty", "\n">>),
     ingredients |-> Some(<< <<FlourCups, SaltToTaste>>, <<FlourSpoons>> >>),
     instructions |-> Some(GoodInstructions),
     iframes |-> <<VideoFrame, NutritionFrame>>,
     notes |-> Some(<<"nbsp", "Keeps", "\n", "\t", "well", " ">>),
     details |-> Some(GoodDetails)]

BareBody ==
    [description |-> None, ingredients |-> None, instructions |-> None,
     iframes |-> <<>>, notes |-> None, details |-> None]

GoodPage ==
    [kind |-> "doc",
     jump |-> Some([href |-> Some(<<"#", "tasty-recipes-1", "-jump-target">>)]),
     block_id |-> Some(<<"tasty-recipes-1">>),
     header |-> Some([h2 |-> Some("Lasagna"), total_time |-> Some(T_90)]),
     body |-> Some(GoodBody),
     nutrition |-> GoodNutrition]

WithBody(b) == [GoodPage EXCEPT !.body = Some(b)]

\* Pages on which Recipe::new is expected to succeed: the full page and pages
\* without one or all of the optional landmarks.
WholePages ==
    {GoodPage,
     WithBody(BareBody),
     WithBody([GoodBody EXCEPT !.ingredients = Some(<< <<FlourCups, SugarWithSubList>> >>)]),
     [GoodPage EXCEPT !.jump = Some([href |-> Some(<<"#", "#", "tasty-recipes-1">>)])],
     WithBody([GoodBody EXCEPT !.iframes = <<NutritionFrame>>]),
     WithBody([GoodBody EXCEPT !.iframes = <<VideoFrame>>]),
     WithBody([GoodBody EXCEPT !.iframes =
                  <<[NutritionFrame EXCEPT !.src = Some("about:blank")]>>]),
     WithBody([GoodBody EXCEPT !.iframes =
                  <<VideoFrame, [NutritionFrame EXCEPT !.data_l_src = None]>>]),
     WithBody([GoodBody EXCEPT !.notes = None]),
     WithBody([GoodBody EXCEPT !.details = None]),
     WithBody([GoodBody EXCEPT !.details = Some(<<DetailText(Some("diet"), None)>>)]),
     WithBody([GoodBody EXCEPT !.instructions =
                  Some([h4 |-> <<>>,
                        div2 |-> Some(<<[tag |-> "ol", steps |-> <<"mix">>]>>)])]),
     [GoodPage EXCEPT !.nutrition = NutritionWith(Some(FullNutrients("FAT", <<3, 2>>, <<25, 1>>)), None)],
     [GoodPage EXCEPT !.nutrition = NutritionWith(Some(FullNutrients("FAT", <<3, 2>>, <<25, 1>>)),
                                                  Some(JsonNumber(0)))]}

\* Pages with something missing or malformed.
BrokenPages ==
    {[GoodPage EXCEPT !.kind = "fetch_error"],
     [GoodPage EXCEPT !.jump = None],
     [GoodPage EXCEPT !.jump = Some([href |-> None])],
     [GoodPage EXCEPT !.block_id = Some(<<"tasty-recipes-2">>)],
     [GoodPage EXCEPT !.block_id = None],
     [GoodPage EXCEPT !.header = None],
     [GoodPage EXCEPT !.header = Some([h2 |-> None, total_time |-> Some(T_90)])],
     [GoodPage EXCEPT !.header = Some([h2 |-> Some("Lasagna"), total_time |-> None])],
     [GoodPage EXCEPT !.header = Some([h2 |-> Some("Lasagna"), total_time |-> Some(T_TooLong)])],
     [GoodPage EXCEPT !.header = Some([h2 |-> Some("Lasagna"),
                                       total_time |-> Some(T_TooManyHours)])],
     [GoodPage EXCEPT !.body = None],
     WithBody([GoodBody EXCEPT !.ingredients = Some(<< <<FlourCups>>, <<SaltToTaste, Nameless>> >>)]),
     WithBody([GoodBody EXCEPT !.ingredients = Some(<< <<FlourCups, BadOuterAmount>> >>)]),
     WithBody([GoodBody EXCEPT !.ingredients = Some(<< <<FlourCups, BadInnerAmount>> >>)]),
     WithBody([GoodBody EXCEPT !.instructions = Some([h4 |-> <<>>, div2 |-> None])]),
     WithBody([GoodBody EXCEPT !.details = Some(<<DetailTime("prep-time", None)>>)]),
     WithBody([GoodBody EXCEPT !.details = Some(<<DetailText(Some("cuisine"), None)>>)]),
     WithBody([GoodBody EXCEPT !.details = Some(<<DetailTime("cook-time", Some(T_TooLong))>>)]),
     [GoodPage EXCEPT !.nutrition = [kind |-> "fetch_error", script |-> None]],
     [GoodPage EXCEPT !.nutrition = [kind |-> "doc", script |-> None]],
     [GoodPage EXCEPT !.nutrition =
         NutritionWith(Some(FullNutrients("FAT", <<3, 2>>, <<25, 1>>)),
                       Some([type |-> "string", integer |-> FALSE, n |-> 4]))],
     [GoodPage EXCEPT !.nutrition =
         NutritionWith(Some([type |-> "string", fields |-> <<>>]), Some(JsonNumber(4)))]}

Pages == WholePages \cup BrokenPages

NoDocument == [kind |-> "none"]

AllStages ==
    <<"fetch", "locate", "header", "body", "ingredients", "instructions", "optional",
      "nutrition">>

EntryKinds == {"both", "no_url", "no_img"}

Entry(i, kind) ==
    [url |-> IF kind = "no_url" THEN None ELSE Some("https://site/recipe-" \o ToString(i)),
     img |-> IF kind = "no_img" THEN None ELSE Some("https://site/image-" \o ToString(i))]

Init ==
    /\ pc = "loop"
    /\ debug_build \in BOOLEAN
    /\ time_in = [text |-> <<>>, hours |-> None, minutes |-> None]
    /\ time_out = NoResult
    /\ r = DefaultRecipe
    /\ res = NoResult
    /\ IngredientVarsIdle
    /\ nut_doc = [kind |-> "none"]
    /\ \E n \in 0..MaxFigures : \E kinds \in [1..n -> EntryKinds] :
            figures = [i \in 1..n |-> Entry(i, kinds[i])]
    /\ idx = 1
    /\ out = <<>>
    /\ log = <<>>
    /\ document = NoDocument
    /\ stages = <<>>
    /\ fetches = <<>>
    /\ panic = NoPanic

Untouched == <<debug_build, time_in, time_out, sum_by_name, first_seen, calls, uls,
               nut_doc, figures>>

\* A step of parse_recipe ended: with a panic, with an error that Recipe::new
\* returns, or well, and then parse_recipe goes on at `next`.
StepEnds(stage, result, next) ==
    /\ stages' = Append(stages, stage)
    /\ r' = result.r
    /\ panic' = IF result.kind = "Panic" THEN result.err ELSE NoPanic
    /\ res' = IF result.kind = "Err" THEN RecipeNew(result) ELSE res
    /\ pc' = CASE result.kind = "Panic" -> "panicked"
                [] result.kind = "Err" -> "match"
                [] OTHER -> next

\* The loop of get_recipes takes the next figure (lines 675-688): without a
\* url or an image it is passed over, otherwise Recipe::new starts on it.
GetRecipesNext ==
    /\ pc = "loop"
    /\ idx <= Len(figures)
    /\ LET e == figures[idx]
       IN  IF IsSome(e.url) /\ IsSome(e.img)
           THEN /\ r' = [DefaultRecipe EXCEPT !.img = Unwrap(e.img), !.url = Unwrap(e.url)]
                /\ pc' = "fetch"
                /\ idx' = idx
           ELSE /\ r' = r
                /\ pc' = "loop"
                /\ idx' = idx + 1
    /\ res' = NoResult
    /\ stages' = <<>>
    /\ fetches' = <<>>
    /\ UNCHANGED <<out, log, document, panic>>
    /\ UNCHANGED Untouched

\* The loop is over: get_recipes returns out.
GetRecipesReturn ==
    /\ pc = "loop"
    /\ idx > Len(figures)
    /\ pc' = "done"
    /\ UNCHANGED <<r, res, idx, out, log, document, stages, fetches, panic>>
    /\ UNCHANGED Untouched

\* get_document(&self.url) (lines 259-260).
FetchPage ==
    /\ pc = "fetch"
    /\ \E page \in Pages :
        /\ document' = page
        /\ StepEnds("fetch",
                    IF page.kind = "fetch_error"
                    THEN [kind |-> "Err", err |-> "reqwest error", r |-> r]
                    ELSE [kind |-> "Ok", err |-> "", r |-> r],
                    "locate")
    /\ fetches' = Append(fetches, r.url)
    /\ UNCHANGED <<idx, out, log>>
    /\ UNCHANGED Untouched

\* Lines 262-274.
LocateStep ==
    /\ pc = "locate"
    /\ LET found == LocateBlock(document)
       IN  StepEnds("locate", [kind |-> found.kind, err |-> found.err, r |-> r], "header")
    /\ UNCHANGED <<idx, out, log, document, fetches>>
    /\ UNCHANGED Untouched

\* Lines 275-277.
HeaderStep ==
    /\ pc = "header"
    /\ StepEnds("header", ParseHeader(r, document.header, debug_build), "body")
    /\ UNCHANGED <<idx, out, log, document, fetches>>
    /\ UNCHANGED Untouched

\* Lines 279-287: the entry-content element and the description.
BodyStep ==
    /\ pc = "body"
    /\ StepEnds("body",
                IF ~IsSome(document.body)
                THEN [kind |-> "Panic", err |-> "unwrap on None: entry content", r |-> r]
                ELSE [kind |-> "Ok", err |-> "",
                      r |-> [r EXCEPT !.description =
                                IF IsSome(Unwrap(document.body).description)
                                THEN Some(Trim(Unwrap(Unwrap(document.body).description)))
                                ELSE None]],
                "ingredients")
    /\ UNCHANGED <<idx, out, log, document, fetches>>
    /\ UNCHANGED Untouched

\* Lines 289-293.
IngredientsStep ==
    /\ pc = "ingredients"
    /\ LET container == Unwrap(document.body).ingredients
       IN  StepEnds("ingredients",
                    IF IsSome(container)
                    THEN ParseAllIngredients(r, DescendantUls(Unwrap(container)))
                    ELSE [kind |-> "Ok", err |-> "", r |-> r],
                    "instructions")
    /\ UNCHANGED <<idx, out, log, document, fetches>>
    /\ UNCHANGED Untouched

\* Lines 295-298.
InstructionsStep ==
    /\ pc = "instructions"
    /\ LET block == Unwrap(document.body).instructions
       IN  StepEnds("instructions",
                    IF IsSome(block) THEN ParseInstructions(r, Unwrap(block))
                    ELSE [kind |-> "Ok", err |-> "", r |-> r],
                    "optional")
    /\ UNCHANGED <<idx, out, log, document, fetches>>
    /\ UNCHANGED Untouched

\* Lines 300-374.
OptionalStep ==
    /\ pc = "optional"
    /\ StepEnds("optional", ParseOptional(r, Unwrap(document.body), debug_build),
                "nutrition")
    /\ UNCHANGED <<idx, out, log, document, fetches>>
    /\ UNCHANGED Untouched

\* Lines 376-386: get_macros on the nutrition iframe's url, if there is one;
\* then parse_recipe returns Ok(()) and Recipe::new Ok(r).
NutritionStep ==
    /\ pc = "nutrition"
    /\ LET url == NutritionUrl(Unwrap(document.body).iframes)
           result == IF IsSome(url) THEN GetMacros(r, document.nutrition)
                     ELSE [kind |-> "Ok", err |-> "", r |-> [r EXCEPT !.macros = None]]
       IN  /\ stages' = Append(stages, "nutrition")
           /\ fetches' = IF IsSome(url) THEN Append(fetches, "https:" \o Unwrap(url))
                          ELSE fetches
           /\ r' = result.r
           /\ panic' = IF result.kind = "Panic" THEN result.err ELSE NoPanic
           /\ res' = IF result.kind = "Panic" THEN res ELSE RecipeNew(result)
           /\ pc' = IF result.kind = "Panic" THEN "panicked" ELSE "match"
    /\ UNCHANGED <<idx, out, log, document>>
    /\ UNCHANGED Untouched

\* The match of get_recipes, lines 688-695: out and what was printed, afterwards.
MatchArm(result, url, rec, pushed, printed) ==
    IF result.kind = "Ok"
    THEN [out |-> Append(pushed, rec), log |-> printed]
    ELSE [out |-> pushed, log |-> Append(printed, [url |-> url, err |-> result.err])]

\* Recipe::new has returned: the record is pushed or the failure printed, and
\* the loop goes on.  The record of a failed construction was dropped.
MatchStep ==
    /\ pc = "match"
    /\ LET after == MatchArm(res, Unwrap(figures[idx].url), r, out, log)
       IN  out' = after.out /\ log' = after.log
    /\ r' = DefaultRecipe
    /\ document' = NoDocument
    /\ idx' = idx + 1
    /\ pc' = "loop"
    /\ UNCHANGED <<res, stages, fetches, panic>>
    /\ UNCHANGED Untouched

Next ==
    \/ GetRecipesNext
    \/ GetRecipesReturn
    \/ FetchPage
    \/ LocateStep
    \/ HeaderStep
    \/ BodyStep
    \/ IngredientsStep
    \/ InstructionsStep
    \/ OptionalStep
    \/ NutritionStep
    \/ MatchStep

Spec == Init /\ [][Next]_vars


\* C3: Recipe::new returns Ok only when every step of parse_recipe was taken,
\* and get_recipes' vector grows only by the record of such a call: a record
\* that was being built when a step failed is handed to nobody.
C3_FullRecipeOrNone ==
    [][/\ res'.kind = "Ok" => stages' = AllStages
       /\ out' # out => /\ res.kind = "Ok"
                         /\ stages = AllStages
                         /\ out' = Append(out, r)
       /\ (pc = "match" /\ res.kind = "Err") => out' = out /\ r' = DefaultRecipe]_vars

\* A record with a name and ingredients whose construction then failed.
C3_Witness ==
    /\ pc = "match" /\ res.kind = "Err"
    /\ r.name = "Lasagna" /\ r.ingredients # <<>>
    /\ stages = <<"fetch", "locate", "header", "body", "ingredients">>

Eligible == {i \in 1..Len(figures) : IsSome(figures[i].url) /\ IsSome(figures[i].img)}

EntryOf(url) == CHOOSE i \in 1..Len(figures) : figures[i].url = Some(url)

\* The panics of the duration parser (utils.rs, the two expects and the
\* overflow of hours * 60 + minutes).
DurationPanics == {"Cannot parse hours", "Cannot parse minutes", "arithmetic overflow"}

\* C4: when the run is over for any reason but a panic of the duration
\* parser, every entry with a url and an image was attempted: each is in out
\* or was printed with its url, and out is in document order.
C4_BatchRunsToTheEnd ==
    (pc \in {"done", "panicked"} /\ panic \notin DurationPanics) =>
        /\ pc = "done"
        /\ \A i \in Eligible :
            \/ \E k \in 1..Len(out) : out[k].url = Unwrap(figures[i].url)
            \/ \E k \in 1..Len(log) : log[k].url = Unwrap(figures[i].url)
        /\ Len(out) + Len(log) = Cardinality(Eligible)
        /\ \A k, l \in 1..Len(out) : k < l => EntryOf(out[k].url) < EntryOf(out[l].url)

\* The panics of the required sub-extractions: the header element, its h2
\* and total time, the second div of the instructions, the duration parser.
RequiredFailurePanics ==
    {"unwrap on None: header", "unwrap on None: h2", "unwrap on None: total time",
     "Could not find nth child in parse instructions",
     "Cannot parse hours", "Cannot parse minutes", "arithmetic overflow"}

\* C5: a failure of a required sub-extraction never ends the process; it is
\* returned by Recipe::new.
C5_RequiredFailuresAreReturned == panic \notin RequiredFailurePanics

\* C6: a page without a jump link (or without its href), or without the block
\* the link names: Recipe::new returns the error of that case, after the
\* fetch of the page and nothing else.
C6_UnresolvedBlockFailsEarly ==
    (document.kind = "doc" /\ Len(stages) >= 2) =>
        LET nolink == ~IsSome(document.jump) \/ ~IsSome(Unwrap(document.jump).href)
            noblock == /\ ~nolink
                       /\ document.block_id
                            # Some(JumpTargetId(Unwrap(Unwrap(document.jump).href)))
            early == /\ pc = "match"
                     /\ stages = <<"fetch", "locate">>
                     /\ fetches = <<r.url>>
                     /\ r = [DefaultRecipe EXCEPT !.img = r.img, !.url = r.url]
        IN  /\ nolink => early /\ res = [kind |-> "Err", err |-> ErrNoJumpLink]
            /\ noblock => early /\ res = [kind |-> "Err", err |-> ErrNoBlock]

C6_Witness ==
    /\ pc = "match"
    /\ IsSome(document.jump) /\ IsSome(Unwrap(document.jump).href)
    /\ document.block_id = Some(<<"tasty-recipes-2">>)
    /\ res.kind = "Err"

\* A page with every required landmark, well formed: nothing but optional
\* landmarks can be missing from it.
RequiredMet(doc, debug) ==
    /\ doc.kind = "doc"
    /\ LocateBlock(doc).kind = "Ok"
    /\ IsSome(doc.header)
    /\ IsSome(Unwrap(doc.header).h2)
    /\ IsSome(Unwrap(doc.header).total_time)
    /\ FromTimeStr(Unwrap(Unwrap(doc.header).total_time), debug).kind = "Ok"
    /\ IsSome(doc.body)
    /\ LET b == Unwrap(doc.body)
       IN  /\ IsSome(b.ingredients) =>
                ParseAllIngredients(DefaultRecipe, DescendantUls(Unwrap(b.ingredients))).kind = "Ok"
           /\ IsSome(b.instructions) => IsSome(Unwrap(b.instructions).div2)
           /\ IsSome(b.details) =>
                \A i \in 1..Len(Unwrap(b.details)) :
                    IsSome(Unwrap(b.details)[i].time) =>
                        FromTimeStr(Unwrap(Unwrap(b.details)[i].time), debug).kind = "Ok"
           /\ IsSome(NutritionUrl(b.iframes)) =>
                GetMacros(DefaultRecipe, doc.nutrition).kind = "Ok"

\* The inner value element of the other-details item of class `class`, if any.
DetailValue(body, class, field) ==
    IF IsSome(body.details)
       /\ \E i \in 1..Len(Unwrap(body.details)) :
            /\ Unwrap(body.details)[i].class = Some(class)
            /\ IsSome(Unwrap(body.details)[i][field])
    THEN "present" ELSE "missing"

\* C7: on such a page Recipe::new returns a Recipe, and the field of each
\* optional landmark that is missing keeps its default.
C7_MissingOptionalIsNoError ==
    (pc \in {"match", "panicked"} /\ RequiredMet(document, debug_build)) =>
        LET b == Unwrap(document.body)
        IN  /\ pc = "match"
            /\ res.kind = "Ok"
            /\ (\A i \in 1..Len(b.iframes) : b.iframes[i].nutritional) => r.video = None
            /\ ~IsSome(b.notes) => r.notes = None
            /\ (\A i \in 1..Len(b.iframes) : ~b.iframes[i].nutritional) => r.macros = None
            /\ DetailValue(b, "prep-time", "time") = "missing" => r.prep_time = <<0, 0>>
            /\ DetailValue(b, "cook-time", "time") = "missing" => r.cook_time = <<0, 0>>
            /\ \A c \in {"cuisine", "category", "method"} :
                    DetailValue(b, c, "text") = "missing" => r[c] = ""

\* C13: a Recipe that Recipe::new returns has servings >= 1: 1 when the block
\* has no nutrition iframe with a data-l-src or the payload has no servings,
\* the payload's servings otherwise.
C13_ServingsPositiveDefaultOne ==
    (pc = "match" /\ res.kind = "Ok") =>
        LET url == NutritionUrl(Unwrap(document.body).iframes)
            json == Unwrap(document.nutrition.script).json
        IN  /\ r.servings >= 1
            /\ (~IsSome(url) \/ ~IsSome(JsonGet(json, "servings"))) => r.servings = 1
            /\ (IsSome(url) /\ IsSome(JsonGet(json, "nutrients"))
                    /\ IsSome(JsonGet(json, "servings")))
                => r.servings = Unwrap(AsU64(Unwrap(JsonGet(json, "servings"))))
            /\ \A k \in 1..Len(out) : out[k].servings >= 1

\* The stages of parse_recipe taken so far are the first of AllStages, in order.
IsPrefix(p, q) == Len(p) <= Len(q) /\ p = SubSeq(q, 1, Len(p))

\* C16: for the recipe in hand the page is fetched first, the steps follow in
\* the order header, ingredients, instructions, and a second fetch comes
\* last, once, and only for a nutrition iframe that has a data-l-src; and
\* the entries before the one in hand were all brought to their end.
C16_StagesInOrder ==
    /\ IsPrefix(stages, AllStages)
    /\ Len(fetches) <= 2
    /\ stages # <<>> => Len(fetches) >= 1
    /\ (stages # <<>> /\ pc \notin {"loop", "done"}) => fetches[1] = r.url
    /\ stages = <<>> => fetches = <<>>
    /\ (Len(fetches) = 2 /\ pc \notin {"loop", "done"}) =>
            /\ stages = AllStages
            /\ \E i \in 1..Len(Unwrap(document.body).iframes) :
                    LET f == Unwrap(document.body).iframes[i]
                    IN  /\ f.nutritional /\ IsSome(f.data_l_src)
                        /\ fetches[2] = "https:" \o Unwrap(f.data_l_src)
    /\ pc \notin {"done", "panicked"} =>
            Len(out) + Len(log) = Cardinality({i \in Eligible : i < idx})

\* The second entry's page is fetched after the first entry, with its two
\* fetches, was matched; and the second has its two fetches as well.
C16_Witness ==
    /\ idx = 2 /\ Len(out) = 1
    /\ pc = "match" /\ Len(fetches) = 2 /\ res.kind = "Ok"

\* The li elements below the ingredients container whose ul children are
\* `children`, each once, in document order.
RECURSIVE ContainerLis(_)
ContainerLis(children) ==
    IF children = <<>> THEN <<>>
    ELSE DescendantLis(Head(children)) \o ContainerLis(Tail(children))

\* The sum of the quantities of the li elements of `lis` that carry `name`.
RECURSIVE SumOnce(_, _)
SumOnce(lis, name) ==
    IF lis = <<>> THEN 0
    ELSE (IF ParseItem(Head(lis)).val.name = name
          THEN ParseItem(Head(lis)).val.quantity ELSE 0)
         + SumOnce(Tail(lis), name)

\* C17: when the ingredients of a page have been parsed, the quantity stored
\* for a name is the sum of the quantities of the li elements below the
\* container that carry the name, each li counted once.
C17_EachItemCountedOnce ==
    (pc = "instructions" /\ IsSome(Unwrap(document.body).ingredients)) =>
        \A k \in 1..Len(r.ingredients) :
            r.ingredients[k].quantity
                = SumOnce(ContainerLis(Unwrap(Unwrap(document.body).ingredients)),
                          r.ingredients[k].name)


=============================================================================
